---- MODULE Spec2Model ----
(***************************************************************************)
(* A model of the signalling relay and of the session/room store of the    *)
(* AI voice game backend.  Two builds of the server exist in the           *)
(* repository:                                                             *)
(*   "server"  - deploy-package/server.js (game and room endpoints, and    *)
(*               the WebSocket relay); its game endpoints are those of     *)
(*               backend/server.js, line for line                          *)
(*   "doc"     - the server listed in deploy-package/DEPLOYMENT.md         *)
(*               (room endpoints and the room-scoped WebSocket relay)      *)
(* The variable build says which of them is running.                       *)
(***************************************************************************)
EXTENDS Integers, Sequences, FiniteSets, TLC

\* ------------------------------------------------------------------ bounds
\* connections accepted in one run
MaxConns == 3

\* ------------------------------------------------------------- value sets
Undefined == "undefined"
RoomIds == {"r1", "r2"}
ConnIds == 1..MaxConns
Payloads == {"sdp"}
RelayTypes == {"offer", "answer", "ice-candidate", "chat"}

VARIABLES
  build,       \* which build of the server is running
  clients,     \* wss.clients: the sockets the WebSocket server holds
  readyState,  \* ws.readyState of every socket
  roomId,      \* ws.roomId of every socket
  event,       \* the WebSocket event handled by the latest step
  sent,        \* the sends (socket, envelope) the latest step performed
  first,       \* per socket, the first envelope sent to it (NoEnvelope: none yet)
  stalled,     \* the open sockets whose transport no longer takes data
  tracing,     \* whether this run keeps the two logs below
  handled,     \* per socket, the number of its messages handled so far
  outbox,      \* per socket, the relayed messages sent to it, in sending order
  heap,        \* the session and room objects, in the order they were created
  gameSessions,\* the Map gameSessions: id -> index into heap (0: no entry)
  pending,     \* the requests suspended in "await callPerplexityAI(...)"
  resp,        \* the HTTP request handled by the latest step and its response
  prev,        \* heap, pending and lastJoin as the latest HTTP step found them
  created,     \* per object, the names its creation request supplied
  accepted,    \* per object, the turns that passed validation and the ban check
  lastJoin,    \* per object, the role and name of the latest join (<<>>: none)
  failed       \* whether an upstream call has failed

traceVars == <<tracing, handled, outbox>>
relayVars == <<clients, readyState, roomId, event, sent, first, stalled, traceVars>>
logVars == <<created, accepted, lastJoin, failed>>
httpVars == <<heap, gameSessions, pending, resp, prev, logVars>>
vars == <<build, clients, readyState, roomId, event, sent, first, stalled,
          tracing, handled, outbox,
          heap, gameSessions, pending, resp, prev, created, accepted, lastJoin,
          failed>>

\* ------------------------------------------------------------ the relay
\* An inbound message: ok is FALSE when JSON.parse (or reading data.type) throws.
\* body stands for the offer / answer / candidate field, or for the rest of the
\* text of a message of another type.
NoMsg == [ok |-> FALSE, type |-> Undefined, body |-> Undefined, roomId |-> Undefined]

\* The roomId field of a relayed message is passed on and never looked at: one
\* value is sent, by senders tagged with it, with the other room, or with none.
InboundMsgs ==
  {NoMsg}
  \cup {[ok |-> TRUE, type |-> t, body |-> b, roomId |-> "r1"] :
          t \in RelayTypes, b \in Payloads}
  \cup {[ok |-> TRUE, type |-> "join-room", body |-> Undefined, roomId |-> r] :
          r \in RoomIds \cup {Undefined}}

\* A parser that accepts every payload.
ParsesAlways(m) == TRUE

\* JSON.parse(message) returns (and data.type can be read).
Parses(m) == m.ok

\* A greeting that carries one fixed id.
GreetingFixedId(c) ==
  [type |-> "connection-established", body |-> 0, roomId |-> Undefined]

\* The envelope sent on connect: the socket's fresh connection id.
Greeting(c) ==
  [type |-> "connection-established", body |-> c, roomId |-> Undefined]

\* client.send(message): the message text is sent on unchanged.
Raw(m) == [type |-> m.type, body |-> m.body, roomId |-> m.roomId]

\* An envelope built anew without the payload field.
RebuiltEmpty(m) == [type |-> m.type, body |-> Undefined, roomId |-> m.roomId]

\* The envelope the documented build builds anew for offer, answer, ice-candidate:
\* {type, offer | answer | candidate: data.<field>, roomId: data.roomId}.
Rebuilt(m) == [type |-> m.type, body |-> m.body, roomId |-> m.roomId]

\* A faulty broadcast: the readyState of the client is not looked at.
ServerRecipientsAnyState(c) ==
  {d \in clients : d # c}

\* wss.clients.forEach of server.js: every other open client.
ServerRecipients(c) ==
  {d \in clients : d # c /\ readyState[d] = "OPEN"}

\* A faulty broadcast: the room of the client is not looked at.
DocRecipientsAllRooms(c) ==
  {d \in clients : d # c /\ readyState[d] = "OPEN"}

\* wss.clients.forEach of the documented build: every other open client whose
\* roomId is the sender's.
DocRecipients(c) ==
  {d \in clients : d # c /\ readyState[d] = "OPEN" /\ roomId[d] = roomId[c]}

\* A faulty join: a socket that has a room keeps it.
JoinRoomFirstWins(c, m) ==
  IF roomId[c] = Undefined THEN [roomId EXCEPT ![c] = m.roomId] ELSE roomId

\* case 'join-room': ws.roomId = data.roomId
JoinRoom(c, m) == [roomId EXCEPT ![c] = m.roomId]

SendAll(to, env) == {[to |-> d, env |-> env] : d \in to}

\* A broadcast that a failing send cuts short: the sockets after the first
\* stalled one (wss.clients is gone through in the order of acceptance) are not
\* sent to.
ReachedUntilFailure(to) ==
  {d \in to : \A e \in to \cap stalled : d <= e}

\* wss.clients.forEach(... client.send(...)): send is called for every eligible
\* socket; a send that fails reports on its own socket (ws.on('error')) and does
\* not throw into the loop.
Reached(to) == to

\* A socket that sends out the newest data first.
QueuedFirst(box, item) == <<item>> \o box

\* client.send(...): the data goes out after what was sent on the socket before.
Queued(box, item) == Append(box, item)

\* The logs once the next message of socket c has been handled and relayed to
\* the sockets to.
Trace(c, to) ==
  IF tracing
    THEN /\ handled' = [handled EXCEPT ![c] = @ + 1]
         /\ outbox' = [d \in ConnIds |->
                         IF d \in to
                           THEN Queued(outbox[d],
                                       [origin |-> c, n |-> handled[c] + 1])
                           ELSE outbox[d]]
    ELSE UNCHANGED <<handled, outbox>>

NoEnvelope == [type |-> "none", body |-> Undefined, roomId |-> Undefined]

\* The first envelope of every socket once env has been sent to the sockets to.
FirstAfter(to, env) ==
  [d \in ConnIds |-> IF d \in to /\ first[d] = NoEnvelope THEN env ELSE first[d]]

\* The sockets as a handler finds them when it starts.
Sockets == [clients |-> clients, readyState |-> readyState, roomId |-> roomId]

\* The record of a handled event; tag is the origin's ws.roomId when the handler
\* started, found is every socket at that moment.
Event(kind, c, m) ==
  [kind |-> kind, origin |-> c, msg |-> m, tag |-> roomId[c], found |-> Sockets]

NoEvent ==
  [kind |-> "none", origin |-> 0, msg |-> NoMsg, tag |-> Undefined,
   found |-> [clients |-> {}, readyState |-> [c \in ConnIds |-> "NEW"],
              roomId |-> [c \in ConnIds |-> Undefined]]]

\* wss.on('connection'): the socket gets its id and is sent the greeting.
OnConnection(c) ==
  /\ readyState[c] = "NEW"
  /\ \A d \in ConnIds : d < c => readyState[d] # "NEW"
  /\ readyState' = [readyState EXCEPT ![c] = "OPEN"]
  /\ clients' = clients \cup {c}
  /\ event' = Event("connection", c, NoMsg)
  /\ sent' = SendAll({c}, Greeting(c))
  /\ first' = FirstAfter({c}, Greeting(c))
  /\ UNCHANGED <<build, roomId, stalled, traceVars, httpVars>>

\* ws.on('message') of server.js: the broadcast comes first, then the switch.
OnMessageServer(c, m) ==
  /\ build = "server"
  /\ readyState[c] = "OPEN"
  /\ event' = Event("message", c, m)
  /\ IF ~Parses(m)
       THEN /\ sent' = {}
            /\ Trace(c, {})
            /\ UNCHANGED <<roomId, first>>
       ELSE /\ sent' = SendAll(Reached(ServerRecipients(c)), Raw(m))
            /\ first' = FirstAfter(Reached(ServerRecipients(c)), Raw(m))
            /\ Trace(c, Reached(ServerRecipients(c)))
            /\ roomId' = IF m.type = "join-room" THEN JoinRoom(c, m) ELSE roomId
  /\ UNCHANGED <<build, clients, readyState, stalled, tracing, httpVars>>

\* ws.on('message') of the documented build: the switch does the broadcasts.
OnMessageDoc(c, m) ==
  /\ build = "doc"
  /\ readyState[c] = "OPEN"
  /\ event' = Event("message", c, m)
  /\ IF ~Parses(m)
       THEN /\ sent' = {}
            /\ Trace(c, {})
            /\ UNCHANGED <<roomId, first>>
       ELSE IF m.type = "join-room"
       THEN /\ sent' = {}
            /\ roomId' = JoinRoom(c, m)
            /\ Trace(c, {})
            /\ UNCHANGED first
       ELSE LET env == IF m.type = "chat" THEN Raw(m) ELSE Rebuilt(m) IN
            /\ sent' = SendAll(Reached(DocRecipients(c)), env)
            /\ first' = FirstAfter(Reached(DocRecipients(c)), env)
            /\ Trace(c, Reached(DocRecipients(c)))
            /\ UNCHANGED roomId
  /\ UNCHANGED <<build, clients, readyState, stalled, tracing, httpVars>>

\* The peer starts closing: the socket is still in wss.clients but no longer OPEN.
Closing(c) ==
  /\ readyState[c] = "OPEN"
  /\ readyState' = [readyState EXCEPT ![c] = "CLOSING"]
  /\ event' = Event("closing", c, NoMsg)
  /\ sent' = {}
  /\ UNCHANGED <<build, clients, roomId, first, stalled, traceVars, httpVars>>

\* A server that keeps closed sockets in wss.clients.
RemainingAll(c) == clients

\* wss.clients once the socket c has closed.
Remaining(c) == clients \ {c}

\* ws.on('close'): the handler only logs; the socket has left wss.clients.
OnClose(c) ==
  /\ readyState[c] \in {"OPEN", "CLOSING"}
  /\ readyState' = [readyState EXCEPT ![c] = "CLOSED"]
  /\ clients' = Remaining(c)
  /\ event' = Event("close", c, NoMsg)
  /\ sent' = {}
  /\ stalled' = stalled \ {c}
  /\ UNCHANGED <<build, roomId, first, traceVars, httpVars>>

\* ws.on('error'): the handler only logs, whatever has become of the socket.
OnError(c) ==
  /\ readyState[c] # "NEW"
  /\ event' = Event("error", c, NoMsg)
  /\ sent' = {}
  /\ UNCHANGED <<build, clients, readyState, roomId, first, stalled, traceVars,
                 httpVars>>

\* The transport of an open socket stops taking data (the peer is gone or its
\* buffer is full) while the server still sees the socket OPEN.
Stall(c) ==
  /\ readyState[c] = "OPEN"
  /\ c \notin stalled
  /\ stalled' = stalled \cup {c}
  /\ event' = Event("stall", c, NoMsg)
  /\ sent' = {}
  /\ UNCHANGED <<build, clients, readyState, roomId, first, traceVars, httpVars>>

\* No socket yet; the logs are kept or not.
RelayInitWith(logs) ==
  /\ tracing = logs
  /\ handled = [c \in ConnIds |-> 0]
  /\ outbox = [c \in ConnIds |-> <<>>]
  /\ clients = {}
  /\ readyState = [c \in ConnIds |-> "NEW"]
  /\ roomId = [c \in ConnIds |-> Undefined]
  /\ event = NoEvent
  /\ sent = {}
  /\ first = [c \in ConnIds |-> NoEnvelope]
  /\ stalled = {}

RelayInit == RelayInitWith(FALSE)

\* ----------------------------------------------------------- HTTP bounds
\* objects created in one run
MaxRecords == 2
\* history entries pushed in one run, over all sessions
MaxTurns == 3
\* history entries of the one session of a long game
MaxLongTurns == 11
\* requests suspended in the upstream call at one time
MaxPending == 1

\* -------------------------------------------------------- program constants
\* "Ban after 3 violations"
BanThreshold == 3
\* gameHistory.slice(-10)
SummaryLen == 10

Ids == {"id1", "id2"}
Players == {1, 2}

\* --------------------------------------------------------------- strings
\* The contents a turn may carry, as the characters of the text.
Chars(content) ==
  CASE content = "hi" -> <<"h", "i">>
    [] content = "Damn it" -> <<"D", "a", "m", "n", " ", "i", "t">>
    [] content = "oh  shell" -> <<"o", "h", " ", " ", "s", "h", "e", "l", "l">>
    [] content = "once upon a time" ->
         <<"o", "n", "c", "e", " ", "u", "p", "o", "n", " ", "a", " ",
           "t", "i", "m", "e">>

Contents == {"hi", "Damn it"}

LowerChar(ch) ==
  CASE ch = "D" -> "d"
    [] OTHER -> ch

\* String.prototype.toLowerCase
toLowerCase(text) == [i \in 1..Len(text) |-> LowerChar(text[i])]

\* String.prototype.includes
includes(text, word) ==
  \E i \in 0..(Len(text) - Len(word)) : SubSeq(text, i + 1, i + Len(word)) = word

explicitWords ==
  { <<"f", "u", "c", "k">>, <<"s", "h", "i", "t">>, <<"d", "a", "m", "n">>,
    <<"h", "e", "l", "l">>, <<"b", "i", "t", "c", "h">>,
    <<"a", "s", "s", "h", "o", "l", "e">>, <<"c", "r", "a", "p">> }

\* explicitWords.some(word => lowercaseContent.includes(word))
hasExplicitContent(content) ==
  \E word \in explicitWords : includes(toLowerCase(Chars(content)), word)

\* content.split(' ').length
wordCount(content) ==
  1 + Cardinality({i \in 1..Len(Chars(content)) : Chars(content)[i] = " "})

\* Array.prototype.slice(-n)
\* slice(0, n): the first n entries.
SliceFirst(seq, n) ==
  IF Len(seq) <= n THEN seq ELSE SubSeq(seq, 1, n)

SliceLast(seq, n) ==
  IF Len(seq) <= n THEN seq ELSE SubSeq(seq, Len(seq) - n + 1, Len(seq))

Range(seq) == {seq[i] : i \in 1..Len(seq)}

RemoveAt(seq, i) == SubSeq(seq, 1, i - 1) \o SubSeq(seq, i + 1, Len(seq))

\* Participant names are sequences of pieces; a display suffix is one more piece.
Names == {<<"Ann">>, <<"ann">>, <<"Bob">>}

LowerPiece(p) ==
  CASE p = "Ann" -> "ann"
    [] p = "Bob" -> "bob"
    [] p = " (Host)" -> " (host)"
    [] p = " (Guest)" -> " (guest)"
    [] OTHER -> p

nameToLowerCase(name) == [i \in 1..Len(name) |-> LowerPiece(name[i])]

\* ------------------------------------------------------------- the store
\* Reading a property an object does not have gives undefined.
Field(o, f) == IF f \in DOMAIN o THEN o[f] ELSE Undefined

SetField(o, f, v) == [x \in DOMAIN o \cup {f} |-> IF x = f THEN v ELSE o[x]]

\* gameSessions.get(id): Has(id) says whether it finds an object, Get(id) is
\* the object.
\* A faulty lookup: an id the map does not hold finds the latest record.
LookupOrLatest(id) ==
  IF gameSessions[id] # 0 THEN gameSessions[id] ELSE Len(heap)

\* gameSessions.get(id): the index of the record, 0 when the map has no entry.
Lookup(id) == gameSessions[id]

Has(id) == Lookup(id) # 0

Get(id) == heap[Lookup(id)]

\* generateSessionId(): the time and a random number, both in base 36; nothing
\* keeps it from returning an id it returned before.
generateSessionId == Ids

TotalTurns ==
  LET hist(o) == IF "gameHistory" \in DOMAIN heap[o]
                   THEN Len(heap[o].gameHistory) ELSE 0
      sum[k \in 0..Len(heap)] == IF k = 0 THEN 0 ELSE sum[k - 1] + hist(k)
  IN  sum[Len(heap)]

\* A store that keeps the newest record only.
StoredAlone(id) == [i \in Ids |-> IF i = id THEN Len(heap) + 1 ELSE 0]

\* gameSessions.set(id, record), the record being the next object created.
Stored(id) == [gameSessions EXCEPT ![id] = Len(heap) + 1]

\* What the latest HTTP step found when it started.
Found ==
  [heap |-> heap, gameSessions |-> gameSessions, pending |-> pending,
   lastJoin |-> lastJoin]

NewSession(id, p1, p2, gt) ==
  [kind |-> "game", id |-> id, player1Name |-> p1, player2Name |-> p2,
   gameType |-> gt, gameHistory |-> <<>>,
   playerStats |-> [p \in Players |-> [turns |-> 0, words |-> 0, violations |-> 0]],
   bannedPlayers |-> <<>>]

\* The body of a session-creation request.
SessionRequest(p1, p2, gt) ==
  [player1Name |-> p1, player2Name |-> p2, gameType |-> gt]

\* Faulty details: a field is marked present when it is missing.
DetailsInverted(p1, p2, gt) ==
  [player1Name |-> p1 = Undefined,
   player2Name |-> p2 = Undefined,
   gameType |-> gt = Undefined]

\* details: {player1Name: !!player1Name, player2Name: !!player2Name,
\*           gameType: !!gameType}
Details(p1, p2, gt) ==
  [player1Name |-> p1 # Undefined,
   player2Name |-> p2 # Undefined,
   gameType |-> gt # Undefined]

\* POST /api/game/session
CreateSession(p1, p2, gt) ==
  /\ build = "server"
  /\ IF p1 = Undefined \/ p2 = Undefined \/ gt = Undefined
       THEN /\ resp' = [op |-> "createSession", status |-> 400,
                        request |-> SessionRequest(p1, p2, gt),
                        details |-> Details(p1, p2, gt)]
            /\ UNCHANGED <<heap, gameSessions, created, accepted, lastJoin>>
       ELSE /\ Len(heap) < MaxRecords
            /\ \E id \in generateSessionId :
                 /\ heap' = Append(heap, NewSession(id, p1, p2, gt))
                 /\ gameSessions' = Stored(id)
                 /\ resp' = [op |-> "createSession", status |-> 200,
                             request |-> SessionRequest(p1, p2, gt),
                             sessionId |-> id]
            /\ created' = Append(created, <<p1, p2>>)
            /\ accepted' = Append(accepted, <<>>)
            /\ lastJoin' = Append(lastJoin, <<>>)
  /\ prev' = Found
  /\ UNCHANGED <<build, relayVars, pending, failed>>

\* A ban check that lets every player through.
IsBannedNever(session, player) == FALSE

\* The check "session.bannedPlayers.includes(player)".
IsBanned(session, player) == player \in Range(session.bannedPlayers)

\* A history that takes a new entry at its front.
PushEntryFront(session, player, content) ==
  [session EXCEPT !.gameHistory =
     <<[player |-> player,
        playerName |-> IF player = 1 THEN session.player1Name
                       ELSE session.player2Name,
        content |-> content]>> \o @]

\* session.gameHistory.push(entry)
PushEntry(session, player, content) ==
  [session EXCEPT !.gameHistory =
     Append(@, [player |-> player,
                playerName |-> IF player = 1 THEN session.player1Name
                               ELSE session.player2Name,
                content |-> content])]

\* playerStats[player].turns++; playerStats[player].words += wordCount
CountTurn(session, player, content) ==
  [session EXCEPT !.playerStats[player].turns = @ + 1,
                  !.playerStats[player].words = @ + wordCount(content)]

\* A validation that does not look at the content.
InvalidPlayerOnly(player, content) == player = 0

\* The test "!player || !content" of the turn handler.
Invalid(player, content) == player = 0 \/ content = Undefined

\* The turn passes the validation, the lookup and the ban check.
Accepts(id, player, content) ==
  /\ ~Invalid(player, content)
  /\ Has(id)
  /\ "bannedPlayers" \in DOMAIN Get(id)
  /\ ~IsBanned(Get(id), player)

\* The turn gets as far as "await callPerplexityAI(...)".
Awaits(id, player, content) ==
  Accepts(id, player, content) /\ player \in Players

TurnRequest(phase, id, player, content, status) ==
  [op |-> "turn", phase |-> phase, id |-> id, player |-> player,
   content |-> content, status |-> status]

\* POST /api/game/:sessionId/turn, up to "await callPerplexityAI(...)".
\* A missing player is player 0 (as falsy as undefined); a missing or empty
\* content is Undefined.
\* Status 0: no response yet; status -1: the handler threw inside the async
\* function, so no response is ever sent.
Turn(id, player, content) ==
  /\ build = "server"
  /\ IF Invalid(player, content)
       THEN /\ resp' = TurnRequest("begin", id, player, content, 400)
            /\ UNCHANGED <<heap, pending, accepted>>
     ELSE IF ~Has(id)
       THEN /\ resp' = TurnRequest("begin", id, player, content, 404)
            /\ UNCHANGED <<heap, pending, accepted>>
     ELSE IF "bannedPlayers" \notin DOMAIN Get(id)
       THEN /\ resp' = TurnRequest("begin", id, player, content, -1)
            /\ UNCHANGED <<heap, pending, accepted>>
     ELSE IF IsBanned(Get(id), player)
       THEN /\ resp' = TurnRequest("begin", id, player, content, 403)
            /\ UNCHANGED <<heap, pending, accepted>>
     ELSE LET o == Lookup(id) IN
          /\ accepted' = [accepted EXCEPT ![o] =
                            Append(@, [player |-> player, content |-> content])]
          /\ IF player \notin Players
               THEN /\ heap' = [heap EXCEPT ![o] = PushEntry(@, player, content)]
                    /\ resp' = TurnRequest("begin", id, player, content, -1)
                    /\ UNCHANGED pending
               ELSE /\ heap' = [heap EXCEPT ![o] =
                                  CountTurn(PushEntry(@, player, content),
                                            player, content)]
                    /\ pending' = Append(pending,
                                         [op |-> "turn", obj |-> o, id |-> id,
                                          player |-> player, content |-> content])
                    /\ resp' = TurnRequest("begin", id, player, content, 0)
  /\ prev' = Found
  /\ UNCHANGED <<build, relayVars, gameSessions, created, lastJoin, failed>>

\* A violation check that bans at the first violation.
CountViolationEarly(session, player, content) ==
  IF hasExplicitContent(content)
    THEN [session EXCEPT !.playerStats[player].violations = @ + 1,
                         !.bannedPlayers = Append(@, player)]
    ELSE session

\* A violation check that bans only above the threshold.
CountViolationLate(session, player, content) ==
  IF hasExplicitContent(content)
    THEN LET counted == [session EXCEPT !.playerStats[player].violations = @ + 1]
         IN  IF counted.playerStats[player].violations > BanThreshold
               THEN [counted EXCEPT !.bannedPlayers = Append(@, player)]
               ELSE counted
    ELSE session

\* The violation check after a successful upstream call.
CountViolation(session, player, content) ==
  IF hasExplicitContent(content)
    THEN LET counted == [session EXCEPT !.playerStats[player].violations = @ + 1]
         IN  IF counted.playerStats[player].violations >= BanThreshold
               THEN [counted EXCEPT !.bannedPlayers = Append(@, player)]
               ELSE counted
    ELSE session

\* The message of the error a failed upstream call throws.
UpstreamError == "Perplexity API error"

\* The body of the 500 response of a catch block: {error, details: error.message}.
Failure(error) ==
  [upstream |-> "failed", error |-> error, details |-> UpstreamError]

\* A server whose handlers call the upstream service again when it has failed:
\* the request stays suspended.
SettledNever(i) == pending

\* The handler has answered: its request is no longer suspended.
Settled(i) == RemoveAt(pending, i)

\* POST /api/game/:sessionId/turn, from the upstream call's outcome on.
TurnComplete(i, ok) ==
  /\ i \in 1..Len(pending)
  /\ pending[i].op = "turn"
  /\ LET req == pending[i]
         before == heap[req.obj]
         after == CountViolation(before, req.player, req.content)
     IN  IF ok
           THEN /\ heap' = [heap EXCEPT ![req.obj] = after]
                /\ resp' = [op |-> "turn", phase |-> "complete", id |-> req.id,
                            player |-> req.player, content |-> req.content,
                            status |-> 200, upstream |-> "ok",
                            warning |-> IF hasExplicitContent(req.content)
                                          THEN before.playerStats[req.player].violations + 1
                                          ELSE 0,
                            playerStats |-> after.playerStats,
                            bannedPlayers |-> after.bannedPlayers,
                            isBanned |-> IsBanned(after, req.player)]
           ELSE /\ resp' = TurnRequest("complete", req.id, req.player, req.content, 500)
                            @@ Failure("Failed to get AI response")
                /\ UNCHANGED heap
  /\ pending' = Settled(i)
  /\ failed' = (failed \/ ~ok)
  /\ prev' = Found
  /\ UNCHANGED <<build, relayVars, gameSessions, created, accepted, lastJoin>>

\* A session whose last entries were taken out of its history (splice(-10)).
Spliced(session) ==
  [session EXCEPT !.gameHistory =
     SubSeq(@, 1, IF Len(@) > SummaryLen THEN Len(@) - SummaryLen ELSE 0)]

\* The session after gameHistory.slice(-10): slice copies, the array stays as it
\* is.
Sliced(session) == session

\* GET /api/game/:sessionId/status
Status(id) ==
  /\ build = "server"
  /\ resp' =
       IF ~Has(id)
         THEN [op |-> "status", id |-> id, status |-> 404]
       ELSE IF "gameHistory" \notin DOMAIN Get(id)
         THEN [op |-> "status", id |-> id, status |-> 500]
       ELSE [op |-> "status", id |-> id, status |-> 200,
             sessionId |-> Get(id).id,
             player1Name |-> Get(id).player1Name,
             player2Name |-> Get(id).player2Name,
             gameType |-> Get(id).gameType,
             playerStats |-> Get(id).playerStats,
             bannedPlayers |-> Get(id).bannedPlayers,
             turnCount |-> Len(Get(id).gameHistory),
             gameHistory |-> SliceLast(Get(id).gameHistory, SummaryLen)]
  /\ heap' = IF Has(id) /\ "gameHistory" \in DOMAIN Get(id)
               THEN [heap EXCEPT ![Lookup(id)] = Sliced(@)]
               ELSE heap
  /\ prev' = Found
  /\ UNCHANGED <<build, relayVars, gameSessions, pending, logVars>>

\* POST /api/game/:sessionId/moderate, up to "await callPerplexityAI(...)".
\* The report reads the session and changes nothing.  On a record without a
\* gameHistory the map over it throws inside the try block: 500.
GameModerate(id) ==
  /\ build = "server"
  /\ IF ~Has(id)
       THEN /\ resp' = [op |-> "moderate", phase |-> "begin", id |-> id,
                        status |-> 404]
            /\ UNCHANGED pending
     ELSE IF "gameHistory" \notin DOMAIN Get(id)
       THEN /\ resp' = [op |-> "moderate", phase |-> "begin", id |-> id,
                        status |-> 500]
            /\ UNCHANGED pending
     ELSE /\ Len(pending) < MaxPending
          /\ pending' = Append(pending,
                               [op |-> "moderate", obj |-> Lookup(id),
                                id |-> id, player |-> 0, content |-> Undefined])
          /\ resp' = [op |-> "moderate", phase |-> "begin", id |-> id,
                      status |-> 0]
  /\ prev' = Found
  /\ UNCHANGED <<build, relayVars, heap, gameSessions, logVars>>

\* room.conversationHistory.push(entry)
PushSpoken(room, speaker, content) ==
  [room EXCEPT !.conversationHistory =
     Append(@, [speaker |-> speaker, content |-> content])]

\* POST /api/webrtc/:roomId/moderate, up to "await callPerplexityAI(...)".
\* A missing speaker or content is Undefined.  On a record without a
\* conversationHistory the push throws before the try block: status -1.
RoomModerate(id, speaker, content) ==
  /\ build \in {"server", "doc"}
  /\ LET request(status) ==
           [op |-> "roomModerate", phase |-> "begin", id |-> id,
            speaker |-> speaker, content |-> content, status |-> status]
     IN  IF speaker = Undefined \/ content = Undefined
           THEN /\ resp' = request(400)
                /\ UNCHANGED <<heap, pending>>
         ELSE IF ~Has(id)
           THEN /\ resp' = request(404)
                /\ UNCHANGED <<heap, pending>>
         ELSE IF "conversationHistory" \notin DOMAIN Get(id)
           THEN /\ resp' = request(-1)
                /\ UNCHANGED <<heap, pending>>
         ELSE LET o == Lookup(id) IN
              /\ Len(pending) < MaxPending
              /\ heap' = [heap EXCEPT ![o] = PushSpoken(@, speaker, content)]
              /\ pending' = Append(pending,
                                   [op |-> "roomModerate", obj |-> o, id |-> id,
                                    player |-> 0, content |-> content])
              /\ resp' = request(0)
  /\ prev' = Found
  /\ UNCHANGED <<build, relayVars, gameSessions, logVars>>

\* The moderate handlers, from the upstream call's outcome on.
ModerateComplete(i, ok) ==
  /\ i \in 1..Len(pending)
  /\ pending[i].op \in {"moderate", "roomModerate"}
  /\ LET req == pending[i]
         answer(status) == [op |-> req.op, phase |-> "complete", id |-> req.id,
                            status |-> status]
     IN  resp' =
           IF ~ok
             THEN answer(500)
                  @@ Failure(IF req.op = "moderate"
                               THEN "Failed to get AI moderation report"
                               ELSE "Failed to get AI moderation")
           ELSE IF req.op = "moderate"
             THEN answer(200)
                  @@ [upstream |-> "ok",
                      playerStats |-> heap[req.obj].playerStats,
                      bannedPlayers |-> heap[req.obj].bannedPlayers]
             ELSE answer(200)
                  @@ [upstream |-> "ok",
                      reminder |-> hasExplicitContent(req.content)]
  /\ pending' = Settled(i)
  /\ failed' = (failed \/ ~ok)
  /\ prev' = Found
  /\ UNCHANGED <<build, relayVars, heap, gameSessions, created, accepted, lastJoin>>

NoResp == [op |-> "none", status |-> 0]

HttpInit ==
  /\ heap = <<>>
  /\ gameSessions = [id \in Ids |-> 0]
  /\ pending = <<>>
  /\ resp = NoResp
  /\ created = <<>>
  /\ accepted = <<>>
  /\ lastJoin = <<>>
  /\ failed = FALSE
  /\ prev = Found

\* The game endpoints, for the players of one game: one session is created, and
\* its turns may overlap.
\* The player is in the ban set of the session the id names.
InBanSet(id, player) ==
  /\ Has(id)
  /\ "bannedPlayers" \in DOMAIN Get(id)
  /\ player \in Range(Get(id).bannedPlayers)

InitGame ==
  /\ build = "server"
  /\ RelayInit
  /\ HttpInit

NextGame ==
  \/ \E p1 \in {Undefined, "Alice"}, p2 \in {Undefined, "Bob"},
        gt \in {Undefined, "fantasy"} :
       /\ (p1 # Undefined /\ p2 # Undefined /\ gt # Undefined) => heap = <<>>
       /\ CreateSession(p1, p2, gt)
  \/ \E id \in Ids, player \in Players \cup {0},
        content \in Contents \cup {Undefined} :
       /\ TotalTurns < MaxTurns \/ InBanSet(id, player)
       /\ Awaits(id, player, content) => Len(pending) < MaxPending
       /\ Turn(id, player, content)
  \/ \E i \in 1..MaxPending, ok \in BOOLEAN : TurnComplete(i, ok)
  \/ \E id \in Ids : Status(id)

SpecGame == InitGame /\ [][NextGame]_vars

\* ------------------------------------------------------------ the rooms
\* A missing (or empty) participant name is the empty sequence.  The join flags
\* are "true", "false", or Undefined when the object has no such property.
Host == " (Host)"
Guest == " (Guest)"

\* The names a room created by POST /api/webrtc/room stores: server.js stores
\* them as given, the documented build appends (Host) / (Guest) to equal names.
StoredNames(n1, n2) ==
  IF build = "doc" /\ nameToLowerCase(n1) = nameToLowerCase(n2)
    THEN <<Append(n1, Host), Append(n2, Guest)>>
    ELSE <<n1, n2>>

\* The join flags of a new room: server.js sets none, the documented build sets
\* both to false.
NewFlag == IF build = "doc" THEN "false" ELSE Undefined

NewRoom(id, n1, n2) ==
  [kind |-> "room", id |-> id,
   participant1Name |-> StoredNames(n1, n2)[1],
   participant2Name |-> StoredNames(n1, n2)[2],
   conversationHistory |-> <<>>, bannedParticipants |-> <<>>,
   hostJoined |-> NewFlag, guestJoined |-> NewFlag]

\* POST /api/webrtc/room
CreateRoom(n1, n2) ==
  /\ build \in {"server", "doc"}
  /\ IF n1 = <<>> \/ n2 = <<>>
       THEN /\ resp' = [op |-> "createRoom", status |-> 400,
                        participant1Name |-> n1, participant2Name |-> n2]
            /\ UNCHANGED <<heap, gameSessions, created, accepted, lastJoin>>
       ELSE /\ Len(heap) < MaxRecords
            /\ \E id \in generateSessionId :
                 /\ heap' = Append(heap, NewRoom(id, n1, n2))
                 /\ gameSessions' = Stored(id)
                 /\ resp' = [op |-> "createRoom", status |-> 200, roomId |-> id,
                             participant1Name |-> n1, participant2Name |-> n2]
            /\ created' = Append(created, <<n1, n2>>)
            /\ accepted' = Append(accepted, <<>>)
            /\ lastJoin' = Append(lastJoin, <<>>)
  /\ prev' = Found
  /\ UNCHANGED <<build, relayVars, pending, failed>>

\* The display names of POST /api/webrtc/room/create-link: names equal up to
\* case get (Host) / (Guest) appended.
DisplayNames(n1, n2) ==
  IF nameToLowerCase(n1) = nameToLowerCase(n2)
    THEN <<Append(n1, Host), Append(n2, Guest)>>
    ELSE <<n1, n2>>

NewLinkedRoom(id, n1, n2) ==
  [kind |-> "room", id |-> id,
   participant1Name |-> DisplayNames(n1, n2)[1],
   participant2Name |-> DisplayNames(n1, n2)[2],
   conversationHistory |-> <<>>, bannedParticipants |-> <<>>,
   hostJoined |-> "false", guestJoined |-> "false"]

\* POST /api/webrtc/room/create-link
CreateLink(n1, n2) ==
  /\ build \in {"server", "doc"}
  /\ IF n1 = <<>> \/ n2 = <<>>
       THEN /\ resp' = [op |-> "createLink", status |-> 400,
                        participant1Name |-> n1, participant2Name |-> n2]
            /\ UNCHANGED <<heap, gameSessions, created, accepted, lastJoin>>
       ELSE /\ Len(heap) < MaxRecords
            /\ \E id \in generateSessionId :
                 /\ heap' = Append(heap, NewLinkedRoom(id, n1, n2))
                 /\ gameSessions' = Stored(id)
                 /\ resp' = [op |-> "createLink", status |-> 200, roomId |-> id,
                             participant1Name |-> n1, participant2Name |-> n2]
            /\ created' = Append(created, <<n1, n2>>)
            /\ accepted' = Append(accepted, <<>>)
            /\ lastJoin' = Append(lastJoin, <<>>)
  /\ prev' = Found
  /\ UNCHANGED <<build, relayVars, pending, failed>>

\* GET /api/webrtc/room/:roomId
GetRoom(id) ==
  /\ build \in {"server", "doc"}
  /\ resp' =
       IF ~Has(id)
         THEN [op |-> "getRoom", id |-> id, status |-> 404]
         ELSE [op |-> "getRoom", id |-> id, status |-> 200,
               roomId |-> Get(id).id,
               participant1Name |-> Field(Get(id), "participant1Name"),
               participant2Name |-> Field(Get(id), "participant2Name"),
               hostJoined |-> Field(Get(id), "hostJoined"),
               guestJoined |-> Field(Get(id), "guestJoined")]
  /\ prev' = Found
  /\ UNCHANGED <<build, relayVars, heap, gameSessions, pending, logVars>>

\* "Mark participant as joined" of server.js.
JoinedServer(room, role, name) ==
  IF role = "host" THEN SetField(room, "hostJoined", "true")
  ELSE IF role = "guest" THEN SetField(room, "guestJoined", "true")
  ELSE room

\* "Handle participant name assignment" of the documented build.
JoinedDoc(room, role, name) ==
  IF role = "host" THEN [room EXCEPT !.hostJoined = "true"]
  ELSE IF role = "guest"
    THEN IF nameToLowerCase(name) = nameToLowerCase(room.participant1Name)
           THEN [room EXCEPT !.participant1Name = Append(@, Host),
                             !.participant2Name = Append(name, Guest),
                             !.guestJoined = "true"]
           ELSE [room EXCEPT !.participant2Name = name,
                             !.guestJoined = "true"]
  ELSE room

\* POST /api/webrtc/room/:roomId/join
RoomJoin(id, role, name) ==
  /\ build \in {"server", "doc"}
  /\ IF ~Has(id)
       THEN /\ resp' = [op |-> "join", id |-> id, role |-> role, name |-> name,
                        status |-> 404]
            /\ UNCHANGED <<heap, lastJoin>>
       ELSE LET o == Lookup(id)
                room == IF build = "doc" THEN JoinedDoc(heap[o], role, name)
                        ELSE JoinedServer(heap[o], role, name)
            IN  /\ heap' = [heap EXCEPT ![o] = room]
                /\ lastJoin' = [lastJoin EXCEPT ![o] = <<role, name>>]
                /\ resp' = [op |-> "join", id |-> id, role |-> role, name |-> name,
                            status |-> 200, roomId |-> room.id,
                            host |-> Field(room, "participant1Name"),
                            guest |-> Field(room, "participant2Name")]
  /\ prev' = Found
  /\ UNCHANGED <<build, relayVars, gameSessions, pending, created, accepted, failed>>

\* The room endpoints of server.js and of the documented build, for the
\* participants of one room: one room is created, and it is joined any number of
\* times.
InitRoom ==
  /\ build \in {"server", "doc"}
  /\ RelayInit
  /\ HttpInit

NextRoom ==
  \/ \E n1 \in Names \cup {<<>>}, n2 \in Names \cup {<<>>} :
       /\ (n1 # <<>> /\ n2 # <<>>) => heap = <<>>
       /\ CreateRoom(n1, n2)
  \/ \E id \in Ids : GetRoom(id)
  \/ \E id \in Ids, role \in {"host", "guest", Undefined}, name \in Names :
       RoomJoin(id, role, name)

SpecRoom == InitRoom /\ [][NextRoom]_vars

\* ------------------------------------------------------- the shared store
\* Game sessions and rooms live in the one Map gameSessions, and every endpoint
\* looks its id up there: one game session and one room, and requests of every
\* endpoint addressed to either id.
\* entries appended to the histories in one run
MaxStoreTurns == 2

HasKind(kind) == \E o \in 1..Len(heap) : heap[o].kind = kind

RECURSIVE Entries(_)
Entries(objects) ==
  IF objects = <<>> THEN 0
  ELSE Entries(Tail(objects))
       + (IF "gameHistory" \in DOMAIN Head(objects)
            THEN Len(Head(objects).gameHistory)
            ELSE Len(Head(objects).conversationHistory))

NextStore ==
  \/ ~HasKind("game") /\ CreateSession("Alice", "Bob", "fantasy")
  \/ ~HasKind("room") /\ CreateRoom(<<"Ann">>, <<"Bob">>)
  \/ \E id \in Ids, player \in {1, 3} :
       /\ Entries(heap) < MaxStoreTurns
       /\ Awaits(id, player, "hi") => Len(pending) < MaxPending
       /\ Turn(id, player, "hi")
  \/ \E i \in 1..MaxPending, ok \in BOOLEAN : TurnComplete(i, ok)
  \/ \E id \in Ids : Status(id)
  \/ \E id \in Ids : GameModerate(id)
  \/ \E id \in Ids, speaker \in {"Ann", Undefined}, content \in {"Damn it", Undefined} :
       Entries(heap) < MaxStoreTurns /\ RoomModerate(id, speaker, content)
  \/ \E i \in 1..MaxPending, ok \in BOOLEAN : ModerateComplete(i, ok)
  \/ \E id \in Ids : GetRoom(id)
  \/ \E id \in Ids : RoomJoin(id, "host", <<"Ann">>)

SpecStore == InitRoom /\ [][NextStore]_vars

\* ------------------------------------------------------------ the creates
\* The three create endpoints filing their records in the one Map, with joins
\* and fetches of the records between them.
CreateNames == {<<>>, <<"Ann">>}

NextCreate ==
  \/ CreateSession("Alice", "Bob", "fantasy")
  \/ \E n1 \in CreateNames, n2 \in CreateNames : CreateRoom(n1, n2)
  \/ \E n1 \in CreateNames, n2 \in CreateNames : CreateLink(n1, n2)
  \/ \E id \in Ids : RoomJoin(id, "guest", <<"Bob">>)
  \/ \E id \in Ids : GetRoom(id)

SpecCreate == InitRoom /\ [][NextCreate]_vars

\* ------------------------------------------------------- room moderation
\* One room and the messages its two participants put through the room
\* moderation endpoint, in both builds.
Speakers == {"Ann", "Bob"}

NextChat ==
  \/ heap = <<>> /\ CreateRoom(<<"Ann">>, <<"Bob">>)
  \/ \E id \in Ids, speaker \in Speakers, content \in Contents :
       Entries(heap) < MaxTurns /\ RoomModerate(id, speaker, content)
  \/ \E i \in 1..MaxPending, ok \in BOOLEAN : ModerateComplete(i, ok)
  \/ \E id \in Ids : GetRoom(id)

SpecChat == InitRoom /\ [][NextChat]_vars

\* -------------------------------------------------------- overlapping turns
\* One session whose players submit turns while earlier turns are still awaiting
\* the upstream call; the calls return in any order.
MaxRaceTurns == 4
MaxRacePending == 2

\* Player 1 always says "Damn it" and player 2 always says "hi".
RaceContent(player) == IF player = 1 THEN "Damn it" ELSE "hi"

NextRace ==
  \/ heap = <<>> /\ CreateSession("Alice", "Bob", "fantasy")
  \/ \E id \in Ids, player \in Players :
       /\ TotalTurns < MaxRaceTurns
       /\ Awaits(id, player, RaceContent(player)) => Len(pending) < MaxRacePending
       /\ Turn(id, player, RaceContent(player))
  \/ \E i \in 1..MaxRacePending, ok \in BOOLEAN : TurnComplete(i, ok)
  \/ \E id \in Ids : Status(id)

SpecRace == InitGame /\ [][NextRace]_vars

\* ---------------------------------------------------------- a long game
\* One client plays one game by itself: it creates the session, waits for every
\* response before its next request, and player 1 always says "hi" while player 2
\* always says "once upon a time".
LongContent(player) == IF player = 1 THEN "hi" ELSE "once upon a time"

NextLong ==
  \/ heap = <<>> /\ CreateSession("Alice", "Bob", "fantasy")
  \/ \E id \in Ids, player \in Players :
       /\ pending = <<>>
       /\ Accepts(id, player, LongContent(player)) =>
            Len(Get(id).gameHistory) < MaxLongTurns
       /\ Turn(id, player, LongContent(player))
  \/ \E ok \in BOOLEAN : TurnComplete(1, ok)
  \/ \E id \in Ids : Status(id)

SpecLong == InitGame /\ [][NextLong]_vars


\* ------------------------------------------------------- specifications
\* The WebSocket relay of server.js and of the documented build.
InitRelay ==
  /\ build \in {"server", "doc"}
  /\ RelayInit
  /\ HttpInit

NextRelay ==
  \/ \E c \in ConnIds : OnConnection(c)
  \/ \E c \in ConnIds : \E m \in InboundMsgs : OnMessageServer(c, m)
  \/ \E c \in ConnIds : \E m \in InboundMsgs : OnMessageDoc(c, m)
  \/ \E c \in ConnIds : Closing(c)
  \/ \E c \in ConnIds : OnClose(c)
  \/ \E c \in ConnIds : OnError(c)

SpecRelay == InitRelay /\ [][NextRelay]_vars

\* The relay with peers whose transport fails: offers and joins, and sends that
\* fail at stalled sockets.
SendMsgs ==
  {m \in InboundMsgs : m.ok /\ m.type \in {"offer", "join-room"} /\ m.roomId # Undefined}

NextSend ==
  \/ \E c \in ConnIds : OnConnection(c)
  \/ \E c \in ConnIds : Stall(c)
  \/ \E c \in ConnIds : \E m \in SendMsgs : OnMessageServer(c, m)
  \/ \E c \in ConnIds : \E m \in SendMsgs : OnMessageDoc(c, m)
  \/ \E c \in stalled : OnError(c)
  \/ \E c \in stalled : OnClose(c)

SpecSend == InitRelay /\ [][NextSend]_vars

\* The relay with its sends logged: a few messages, from any of the sockets that
\* have connected so far, in any order.
\* messages handled in one run
MaxMsgs == 4

RECURSIVE Sum(_, _)
Sum(f, S) ==
  IF S = {} THEN 0
  ELSE LET x == CHOOSE y \in S : TRUE IN f[x] + Sum(f, S \ {x})

\* An offer, or a join of the one room.
OrderMsgs == {m \in SendMsgs : m.roomId = "r1"}

InitOrder ==
  /\ build \in {"server", "doc"}
  /\ RelayInitWith(TRUE)
  /\ HttpInit

NextOrder ==
  \/ \E c \in ConnIds : OnConnection(c)
  \/ \E c \in ConnIds : \E m \in OrderMsgs :
       Sum(handled, ConnIds) < MaxMsgs /\ OnMessageServer(c, m)
  \/ \E c \in ConnIds : \E m \in OrderMsgs :
       Sum(handled, ConnIds) < MaxMsgs /\ OnMessageDoc(c, m)

SpecOrder == InitOrder /\ [][NextOrder]_vars

\* =================================================================== claims
\* The latest step handled a parsed message that is relayed (not join-room).
RelayedMessage ==
  event.kind = "message" /\ event.msg.ok /\ event.msg.type \in RelayTypes

SentTo == {s.to : s \in sent}

\* C1: in the documented (room-scoped) build, an offer, answer, ice-candidate or
\* message of another type from a socket whose room is R is sent to every other
\* open socket whose room is R and to no socket of another room.
C1_RoomIsolation ==
  (build = "doc" /\ RelayedMessage) =>
    SentTo = {d \in ConnIds : /\ d # event.origin
                              /\ readyState[d] = "OPEN"
                              /\ roomId[d] = roomId[event.origin]}

\* C1 witness: a relayed message reached a socket of the sender's room while an
\* open socket of another room got nothing.
C1_Witness ==
  /\ build = "doc" /\ RelayedMessage
  /\ roomId[event.origin] \in RoomIds
  /\ SentTo # {}
  /\ \E d \in ConnIds : /\ readyState[d] = "OPEN"
                        /\ roomId[d] \in RoomIds \ {roomId[event.origin]}
                        /\ d \notin SentTo

\* C2: in server.js, no socket whose room differs from the sender's receives the
\* sender's message.
C2_ServerRoomScoped ==
  (build = "server" /\ event.kind = "message" /\ event.msg.ok) =>
    \A d \in SentTo : roomId[d] = event.tag

\* C3: in both builds, a message of any type is never sent to the socket it came
\* from, nor to a socket that is not open when it is broadcast.
C3_NoEchoOpenOnly ==
  event.kind = "message" =>
    \A d \in SentTo : d # event.origin /\ readyState[d] = "OPEN"

\* C3 witness: a message was broadcast while a socket that is closing was still
\* held by the WebSocket server.
C3_Witness ==
  /\ event.kind = "message" /\ event.msg.ok
  /\ SentTo # {}
  /\ \E d \in clients : d # event.origin /\ readyState[d] = "CLOSING"

\* C4: in the documented build, after join-room S the sender's room is S whatever
\* room it had before (so join-room for the room it has leaves it there), and a
\* relayed message is sent to an open socket exactly when the room that socket
\* joined last is the sender's.
C4_JoinLastWriteWins ==
  (build = "doc" /\ event.kind = "message" /\ event.msg.ok) =>
    IF event.msg.type = "join-room"
      THEN /\ roomId[event.origin] = event.msg.roomId
           /\ (event.tag = event.msg.roomId => roomId[event.origin] = event.tag)
      ELSE \A d \in ConnIds \ {event.origin} :
             readyState[d] = "OPEN" =>
               (d \in SentTo <=> roomId[d] = roomId[event.origin])

\* C4 witness: a socket that had joined one room has just joined another.
C4_Witness ==
  /\ build = "doc"
  /\ event.kind = "message" /\ event.msg.ok /\ event.msg.type = "join-room"
  /\ event.tag \in RoomIds
  /\ event.msg.roomId \in RoomIds \ {event.tag}
  /\ roomId[event.origin] = event.msg.roomId

\* ------------------------------------------------------------ game turns
\* The game session the latest request names, as the request found it and as
\* the request left it.
RespObj == gameSessions[resp.id]

FoundSession == prev.heap[RespObj]

IsGame(o) == "bannedPlayers" \in DOMAIN o

FlaggedBy(history, p) ==
  Cardinality({i \in 1..Len(history) :
                 history[i].player = p /\ hasExplicitContent(history[i].content)})

\* The latest request is a turn of a player who was in the ban set of an
\* existing game session.
BannedTurn ==
  /\ resp.op = "turn" /\ resp.phase = "begin"
  /\ resp.player \in Players /\ resp.content # Undefined
  /\ RespObj # 0
  /\ IsGame(FoundSession)
  /\ resp.player \in Range(FoundSession.bannedPlayers)

\* C5: while every upstream call has succeeded and none is in flight, a player
\* with 3 flagged turns in a session's history is in the session's ban set; and
\* a turn submitted by a player in the ban set is answered 403.
C5_BanAfterThree ==
  /\ (~failed /\ pending = <<>>) =>
       \A o \in 1..Len(heap) : IsGame(heap[o]) =>
         \A p \in Players :
           FlaggedBy(heap[o].gameHistory, p) >= BanThreshold =>
             p \in Range(heap[o].bannedPlayers)
  /\ BannedTurn => resp.status = 403

C5_Witness ==
  /\ ~failed
  /\ BannedTurn
  /\ resp.status = 403
  /\ FlaggedBy(heap[RespObj].gameHistory, resp.player) = BanThreshold

\* C6: a turn submitted by a player in the ban set leaves every record (history,
\* counters, ban set) as it found it, and starts no upstream call.
C6_BannedTurnNoEffect ==
  BannedTurn => (heap = prev.heap /\ pending = prev.pending)

C6_Witness ==
  /\ BannedTurn
  /\ heap = prev.heap
  /\ pending = <<>> /\ prev.pending = <<>>
  /\ Len(heap[RespObj].gameHistory) >= BanThreshold

\* C7: whenever no request is in flight, each player's violation counter equals
\* the number of history entries of that player with flagged content, the turns
\* whose upstream call failed included.
C7_ViolationsCountFlagged ==
  pending = <<>> =>
    \A o \in 1..Len(heap) : IsGame(heap[o]) =>
      \A p \in Players :
        heap[o].playerStats[p].violations = FlaggedBy(heap[o].gameHistory, p)

\* ------------------------------------------------------------ game status
RECURSIVE WordsOf(_, _)
WordsOf(turns, p) ==
  IF turns = <<>> THEN 0
  ELSE WordsOf(Tail(turns), p)
       + (IF Head(turns).player = p THEN wordCount(Head(turns).content) ELSE 0)

TurnsOf(turns, p) == Cardinality({i \in 1..Len(turns) : turns[i].player = p})

Min(a, b) == IF a <= b THEN a ELSE b

\* C8: a status fetch after N accepted turns of players 1 and 2 reports
\* turnCount = N, the last min(N, 10) turns in submission order, turn counters
\* that count each player's turns and sum to N, and word counters equal to the
\* sums of the word counts of each player's turns.
C8_StatusAfterTurns ==
  (resp.op = "status" /\ resp.status = 200) =>
    LET turns == accepted[RespObj]
        N == Len(turns)
        shown == resp.gameHistory
        K == Min(N, SummaryLen)
    IN  /\ resp.turnCount = N
        /\ Len(shown) = K
        /\ \A i \in 1..K :
             /\ shown[i].player = turns[N - K + i].player
             /\ shown[i].content = turns[N - K + i].content
        /\ resp.playerStats[1].turns + resp.playerStats[2].turns = N
        /\ \A p \in Players :
             /\ resp.playerStats[p].turns = TurnsOf(turns, p)
             /\ resp.playerStats[p].words = WordsOf(turns, p)

C8_Witness ==
  /\ resp.op = "status" /\ resp.status = 200
  /\ resp.turnCount > SummaryLen
  /\ Len(resp.gameHistory) = SummaryLen
  /\ resp.playerStats[1].turns > 0 /\ resp.playerStats[2].turns > 0

\* ------------------------------------------------------------ rooms
\* C9: fetching a room that has not been joined since its creation returns the
\* participant names its creation request supplied, and both join flags false.
C9_CreateFetchRoundTrip ==
  (resp.op = "getRoom" /\ RespObj # 0 /\ lastJoin[RespObj] = <<>>) =>
    /\ resp.status = 200
    /\ resp.participant1Name = created[RespObj][1]
    /\ resp.participant2Name = created[RespObj][2]
    /\ resp.hostJoined = "false"
    /\ resp.guestJoined = "false"

\* C10: a join with the role (host or guest) and the name of the join before it
\* leaves the room record as that join left it.
C10_JoinIdempotent ==
  (/\ resp.op = "join" /\ resp.status = 200
   /\ resp.role \in {"host", "guest"}
   /\ prev.lastJoin[RespObj] = <<resp.role, resp.name>>) =>
    heap[RespObj] = prev.heap[RespObj]

\* ------------------------------------------------------------ validation
SessionFields == {"player1Name", "player2Name", "gameType"}

MissingFields(request) == {f \in SessionFields : request[f] = Undefined}

\* The latest step left the store (the map and every object) as it found it.
StoreUnchanged == heap = prev.heap /\ gameSessions = prev.gameSessions

\* C11: a session-creation request with some required field missing is answered
\* 400 with details that mark exactly the missing fields as absent and the
\* supplied ones as present, and the store is left as it was.
C11_CreateValidation ==
  (resp.op = "createSession" /\ MissingFields(resp.request) # {}) =>
    /\ resp.status = 400
    /\ \A f \in SessionFields :
         resp.details[f] = (f \notin MissingFields(resp.request))
    /\ StoreUnchanged

C11_Witness ==
  /\ resp.op = "createSession"
  /\ Cardinality(MissingFields(resp.request)) = 2
  /\ resp.status = 400
  /\ heap # <<>>
  /\ StoreUnchanged

\* ------------------------------------------------------------ unknown ids
\* The latest step is the handling of a request addressed to a record id (for
\* the handlers that wait for the upstream call: up to that call).
AddressedRequest ==
  \/ resp.op \in {"status", "getRoom", "join"}
  \/ resp.op \in {"turn", "moderate", "roomModerate"} /\ resp.phase = "begin"

ValidFields ==
  /\ resp.op = "turn" => (resp.player # 0 /\ resp.content # Undefined)
  /\ resp.op = "roomModerate" =>
       (resp.speaker # Undefined /\ resp.content # Undefined)

\* C12: a status fetch, turn, game moderate, room fetch, room join or room
\* moderate (with valid fields) addressed to an id the store does not hold is
\* answered 404, leaves the store as it was and starts no upstream call.
C12_NotFound ==
  (AddressedRequest /\ ValidFields /\ prev.gameSessions[resp.id] = 0) =>
    /\ resp.status = 404
    /\ StoreUnchanged
    /\ pending = prev.pending

C12_Witness ==
  /\ AddressedRequest /\ ValidFields
  /\ resp.op = "roomModerate"
  /\ prev.gameSessions[resp.id] = 0
  /\ resp.status = 404
  /\ Len(heap) = 1
  /\ StoreUnchanged

\* ------------------------------------------------------ malformed payloads
\* C13: when a connection sends a payload that cannot be parsed, nothing is sent
\* to any connection, and every socket (membership, state, room tag) is left as
\* the handler found it: the sender is still open, so its later messages are
\* handled from the state they would have been handled from without it.
C13_MalformedDropped ==
  (event.kind = "message" /\ ~event.msg.ok) =>
    /\ sent = {}
    /\ roomId = event.found.roomId
    /\ readyState = event.found.readyState
    /\ clients = event.found.clients
    /\ readyState[event.origin] = "OPEN"
    /\ event.origin \in clients

C13_Witness ==
  /\ event.kind = "message" /\ ~event.msg.ok
  /\ sent = {}
  /\ \E d \in clients \ {event.origin} :
       readyState[d] = "OPEN" /\ roomId[d] = roomId[event.origin]
  /\ roomId[event.origin] \in RoomIds

\* ------------------------------------------------------------ the greeting
\* C14: the first envelope sent to an accepted connection is
\* connection-established carrying the connection's own id; nothing is sent to
\* a connection that has not been accepted.
C14_GreetingFirst ==
  \A c \in ConnIds :
    IF readyState[c] = "NEW"
      THEN first[c] = NoEnvelope
      ELSE first[c].type = "connection-established" /\ first[c].body = c

C14_Witness ==
  /\ event.kind = "message" /\ event.msg.ok
  /\ \E d \in SentTo :
       /\ first[d].type = "connection-established"
       /\ d > event.origin
  /\ \E c \in ConnIds : readyState[c] = "NEW"

\* ------------------------------------------------------------ disconnects
\* C15: a closed connection is out of the registry and no broadcast is sent to
\* it, whatever room tag it holds; a closing, close or error event changes no
\* room tag; and the server's handling of an event for a connection that is
\* already closed changes nothing and sends nothing.
C15_RemovedOnClose ==
  /\ \A d \in ConnIds : readyState[d] = "CLOSED" => d \notin clients
  /\ event.kind = "message" =>
       \A d \in SentTo : d \in clients /\ readyState[d] # "CLOSED"
  /\ event.kind \in {"closing", "close", "error"} =>
       /\ roomId = event.found.roomId
       /\ sent = {}
  /\ (event.kind = "error" /\ event.found.readyState[event.origin] = "CLOSED") =>
       /\ clients = event.found.clients
       /\ readyState = event.found.readyState

C15_Witness ==
  /\ event.kind = "message" /\ event.msg.ok
  /\ SentTo # {}
  /\ \E d \in ConnIds \ {event.origin} :
       /\ readyState[d] = "CLOSED"
       /\ roomId[d] = roomId[event.origin]
       /\ roomId[d] \in RoomIds
       /\ d \notin SentTo

\* ------------------------------------------------------------ room tags
\* C16: every connection's room tag, when it has one, is the id of a record the
\* store holds.
C16_TagNamesStoredRoom ==
  \A c \in ConnIds :
    roomId[c] # Undefined =>
      \E id \in Ids : gameSessions[id] # 0 /\ id = roomId[c]

\* ------------------------------------------------------ upstream failures
\* The latest step is a turn or moderate handler up to its upstream call, or
\* from the outcome of that call on.
Begins == resp.op \in {"turn", "moderate", "roomModerate"} /\ resp.phase = "begin"

Completes ==
  resp.op \in {"turn", "moderate", "roomModerate"} /\ resp.phase = "complete"

\* C17: a turn or moderate request starts at most one upstream call, and no
\* answer before the call returns; when the call returns the request is settled
\* with one answer and no further call; and when the call has failed that answer
\* is 500 with the handler's error text and the message of the error.
C17_FailureSurfacedOnce ==
  /\ Begins =>
       \/ pending = prev.pending /\ resp.status # 0
       \/ /\ Len(pending) = Len(prev.pending) + 1
          /\ SubSeq(pending, 1, Len(prev.pending)) = prev.pending
          /\ resp.status = 0
  /\ Completes =>
       /\ Len(pending) = Len(prev.pending) - 1
       /\ resp.status \in {200, 500}
       /\ resp.upstream = "failed" =>
            /\ resp.status = 500
            /\ resp.error \in {"Failed to get AI response",
                               "Failed to get AI moderation report",
                               "Failed to get AI moderation"}
            /\ resp.details = UpstreamError
       /\ resp.upstream = "ok" => resp.status = 200

C17_Witness ==
  /\ Completes
  /\ resp.op = "moderate"
  /\ resp.upstream = "failed"
  /\ resp.status = 500
  /\ pending = <<>>
  /\ Len(prev.pending) = 1

\* ------------------------------------------------------------ faults
\* The latest request ran into a fault no handler has a case for: it addressed
\* a stored record that lacks the field its handler reads, or it was a turn of a
\* player without a stats slot.
FaultingRequest ==
  /\ AddressedRequest /\ ValidFields
  /\ prev.gameSessions[resp.id] # 0
  /\ LET found == prev.heap[prev.gameSessions[resp.id]] IN
       \/ resp.op \in {"turn", "status", "moderate"} /\ ~IsGame(found)
       \/ resp.op = "roomModerate" /\ "conversationHistory" \notin DOMAIN found
       \/ /\ resp.op = "turn" /\ IsGame(found)
          /\ resp.player \notin Players
          /\ resp.player \notin Range(found.bannedPlayers)

\* C18: every request is answered, and a request that runs into a fault no
\* handler has a case for is answered 500.
C18_FaultsAnswered ==
  /\ resp.status # -1
  /\ FaultingRequest => resp.status = 500

\* ------------------------------------------------------------ failing sends
\* The sockets a broadcast from the origin is due to: every other open socket,
\* in the documented build those with the origin's room tag.
Eligible ==
  {d \in ConnIds \ {event.origin} :
     /\ event.found.readyState[d] = "OPEN"
     /\ build = "doc" => event.found.roomId[d] = event.tag}

C20_SendOrderKept ==
  \A d \in ConnIds :
    \A i, j \in 1..Len(outbox[d]) :
      (i < j /\ outbox[d][i].origin = outbox[d][j].origin) =>
        outbox[d][i].n < outbox[d][j].n

C20_Witness ==
  \E d \in ConnIds :
    /\ Len(outbox[d]) >= 3
    /\ outbox[d][1].origin = outbox[d][3].origin
    /\ outbox[d][1].origin # outbox[d][2].origin
    /\ outbox[d][1].n < outbox[d][3].n

\* ------------------------------------------------------------ relay fidelity
\* C21: a well-formed message that is not a join-room is sent exactly once to
\* each eligible socket and to no other, and every envelope sent carries the
\* type and the payload of the message.
C21_RelayFidelity ==
  (event.kind = "message" /\ event.msg.ok /\ event.msg.type # "join-room") =>
    /\ SentTo = Eligible
    /\ Cardinality(sent) = Cardinality(Eligible)
    /\ \A s \in sent :
         /\ s.env.type = event.msg.type
         /\ s.env.body = event.msg.body

C21_Witness ==
  /\ build = "doc"
  /\ event.kind = "message" /\ event.msg.ok
  /\ event.msg.type = "chat"
  /\ Cardinality(sent) = 2
  /\ \A s \in sent : s.env.type = "chat" /\ s.env.body = "sdp"

\* ------------------------------------------------------------ no destruction
\* C22: a create that answers with an id leaves the store holding that id; no
\* request takes an id (or an object) out of the store; and a fetch of an id the
\* store holds is never answered 404.
C22_NeverDestroyed ==
  /\ (resp.op = "createSession" /\ resp.status = 200) =>
       gameSessions[resp.sessionId] # 0
  /\ (resp.op = "createRoom" /\ resp.status = 200) =>
       gameSessions[resp.roomId] # 0
  /\ \A id \in Ids :
       prev.gameSessions[id] # 0 =>
         /\ gameSessions[id] # 0
         /\ gameSessions[id] <= Len(heap)
  /\ Len(prev.heap) <= Len(heap)
  /\ (resp.op \in {"getRoom", "status"} /\ prev.gameSessions[resp.id] # 0) =>
       resp.status # 404

C22_Witness ==
  /\ resp.op = "getRoom" /\ resp.status = 200
  /\ Len(heap) = 2
  /\ gameSessions[resp.id] = 1
  /\ Entries(heap) > 0
  /\ \E id \in Ids : gameSessions[id] = 2

\* ------------------------------------------------------------ room bans
FlaggedSpoken(history, speaker) ==
  Cardinality({i \in 1..Len(history) :
                 /\ history[i].speaker = speaker
                 /\ hasExplicitContent(history[i].content)})

IsRoom(o) == "conversationHistory" \in DOMAIN o

\* C23: while every upstream call has succeeded and none is in flight, a speaker
\* with 3 flagged messages in a room's conversation is in the room's ban set; and
\* a message of a speaker in the ban set is answered 403 and not appended.
C23_RoomBan ==
  /\ (~failed /\ pending = <<>>) =>
       \A o \in 1..Len(heap) : IsRoom(heap[o]) =>
         \A speaker \in Speakers :
           FlaggedSpoken(heap[o].conversationHistory, speaker) >= BanThreshold =>
             speaker \in Range(heap[o].bannedParticipants)
  /\ (/\ resp.op = "roomModerate" /\ resp.phase = "begin"
      /\ ValidFields
      /\ prev.gameSessions[resp.id] # 0
      /\ IsRoom(prev.heap[prev.gameSessions[resp.id]])
      /\ resp.speaker \in
           Range(prev.heap[prev.gameSessions[resp.id]].bannedParticipants)) =>
       (resp.status = 403 /\ heap = prev.heap)

\* ------------------------------------------------------ untagged sockets
\* C24: in the documented (room-scoped) build, a message of a socket that has no
\* room is sent to no socket, and no socket without a room is sent a relayed
\* message.
C24_UntaggedIsolated ==
  (build = "doc" /\ RelayedMessage) =>
    /\ event.tag = Undefined => sent = {}
    /\ \A d \in SentTo : event.found.roomId[d] # Undefined

\* --------------------------------------------------------- envelope labels
\* C25: in the documented build, an offer, answer or ice-candidate envelope sent
\* to a socket whose room is R carries roomId = R, whatever roomId the sender
\* put in its message.
C25_LabelIsRecipientRoom ==
  (/\ build = "doc" /\ event.kind = "message" /\ event.msg.ok
   /\ event.msg.type \in {"offer", "answer", "ice-candidate"}) =>
    \A s \in sent : event.found.roomId[s.to] \in RoomIds =>
                       s.env.roomId = event.found.roomId[s.to]

\* ------------------------------------------------------------- join frame
\* C26: a join-room message is sent on to no socket and leaves the room of every
\* socket but the sender's as it was.
C26_JoinOnlyOwnTag ==
  (event.kind = "message" /\ event.msg.ok /\ event.msg.type = "join-room") =>
    /\ sent = {}
    /\ \A d \in ConnIds \ {event.origin} : roomId[d] = event.found.roomId[d]

\* ------------------------------------------------- ban set and counters
\* C27: in every state between two request-handling steps, whatever turns are
\* still awaiting the upstream call, a player is in a session's ban set exactly
\* when the player's violation counter is at least 3, and a player in the ban set
\* before a step is in it after the step.
C27_BanSetAgrees ==
  /\ \A o \in 1..Len(heap) : IsGame(heap[o]) =>
       \A p \in Players :
         p \in Range(heap[o].bannedPlayers)
           <=> heap[o].playerStats[p].violations >= BanThreshold
  /\ \A o \in 1..Len(prev.heap) : IsGame(prev.heap[o]) =>
       Range(prev.heap[o].bannedPlayers) \subseteq Range(heap[o].bannedPlayers)

\* C27 witness: a turn's upstream call returned while another turn was still
\* awaiting its own, and the returning turn put its player in the ban set.
C27_Witness ==
  /\ resp.op = "turn" /\ resp.phase = "complete" /\ resp.status = 200
  /\ pending # <<>>
  /\ resp.player \in Range(heap[RespObj].bannedPlayers)
  /\ resp.player \notin Range(FoundSession.bannedPlayers)

Occurrences(seq, x) == Cardinality({i \in 1..Len(seq) : seq[i] = x})

\* C28: whatever the interleaving of the turn requests of a session, every
\* violation counter is at most 3, the ban set holds each player at most once,
\* and a warning reports "Violation k of 3" with k in 1..3 only.
C28_BoundedViolations ==
  /\ \A o \in 1..Len(heap) : IsGame(heap[o]) =>
       \A p \in Players :
         /\ heap[o].playerStats[p].violations <= BanThreshold
         /\ Occurrences(heap[o].bannedPlayers, p) <= 1
  /\ (/\ resp.op = "turn" /\ resp.phase = "complete" /\ resp.status = 200
      /\ hasExplicitContent(resp.content)) =>
       resp.warning \in 1..BanThreshold

\* ----------------------------------------------------------- history order
Submitted(history) ==
  [i \in 1..Len(history) |->
     [player |-> history[i].player, content |-> history[i].content]]

\* C29: the history of a session holds the accepted turns, each once, in the
\* order in which they were accepted, whatever the order in which their upstream
\* calls return or fail.
C29_HistoryIsAcceptanceOrder ==
  \A o \in 1..Len(heap) : IsGame(heap[o]) =>
    Submitted(heap[o].gameHistory) = accepted[o]

\* C29 witness: of two turns of different players awaiting the upstream call, the
\* one accepted later has been settled first.
C29_Witness ==
  /\ resp.op = "turn" /\ resp.phase = "complete"
  /\ Len(prev.pending) = 2
  /\ pending = <<prev.pending[1]>>
  /\ prev.pending[1].player # prev.pending[2].player
  /\ Len(heap[RespObj].gameHistory) >= 3

\* --------------------------------------------------------- invalid players
\* C30: a turn whose player is neither 1 nor 2 leaves every record as it was, and
\* in every state the length of a session's history is the sum of the two
\* players' turn counters.
C30_HistoryMatchesTurns ==
  /\ (resp.op = "turn" /\ resp.phase = "begin" /\ resp.player \notin Players) =>
       heap = prev.heap
  /\ \A o \in 1..Len(heap) : IsGame(heap[o]) =>
       Len(heap[o].gameHistory)
         = heap[o].playerStats[1].turns + heap[o].playerStats[2].turns

\* ------------------------------------------------------------- fresh ids
CreateAnswered ==
  resp.op \in {"createSession", "createRoom", "createLink"} /\ resp.status = 200

CreatedId == IF resp.op = "createSession" THEN resp.sessionId ELSE resp.roomId

\* C31: a create (game session, room, room link) files its record under an id
\* that was not a key of the store, and every id that was a key names the same
\* record, unmodified, after the create.
C31_CreateNeverOverwrites ==
  CreateAnswered =>
    /\ prev.gameSessions[CreatedId] = 0
    /\ \A id \in Ids : prev.gameSessions[id] # 0 =>
         /\ gameSessions[id] = prev.gameSessions[id]
         /\ heap[gameSessions[id]] = prev.heap[prev.gameSessions[id]]

\* ---------------------------------------------------------- read requests
\* C32: a status fetch, a room fetch and a game moderation request, from its
\* start to its answer and whether its upstream call succeeds or fails, leave every
\* record and the map as they found them.
C32_ReadsChangeNothing ==
  resp.op \in {"status", "getRoom", "moderate"} =>
    (heap = prev.heap /\ gameSessions = prev.gameSessions)

\* C32 witness: the moderation of a session with a turn in its history was
\* answered 500 after its upstream call failed.
C32_Witness ==
  /\ resp.op = "moderate" /\ resp.phase = "complete" /\ resp.status = 500
  /\ Len(heap[RespObj].gameHistory) >= 1
  /\ heap = prev.heap

\* -------------------------------------------------------- error precedence
TurnBegun == resp.op = "turn" /\ resp.phase = "begin"

\* C33: a turn with a missing player or content is answered 400, also when its
\* id is unknown; otherwise a turn with an unknown id is answered 404; otherwise
\* a turn of a player in the session's ban set is answered 403; and a turn
\* answered 400, 404 or 403 leaves the store as it was and starts no upstream
\* call.
C33_TurnErrorPrecedence ==
  TurnBegun =>
    /\ IF resp.player = 0 \/ resp.content = Undefined
         THEN resp.status = 400
       ELSE IF prev.gameSessions[resp.id] = 0
         THEN resp.status = 404
       ELSE (IsGame(FoundSession) /\ resp.player \in Range(FoundSession.bannedPlayers))
              => resp.status = 403
    /\ resp.status \in {400, 404, 403} =>
         /\ heap = prev.heap
         /\ gameSessions = prev.gameSessions
         /\ pending = prev.pending

\* C33 witness: a banned player's turn without content was answered 400, with a
\* session in the store and no upstream call started.
C33_Witness ==
  /\ TurnBegun /\ resp.status = 400
  /\ resp.content = Undefined
  /\ prev.gameSessions[resp.id] # 0
  /\ resp.player \in Range(FoundSession.bannedPlayers)
  /\ pending = prev.pending

\* -------------------------------------------------------------- join frame
JoinAnswered == resp.op = "join" /\ resp.status = 200

JoinedRoom == heap[gameSessions[resp.id]]

FoundRoom == prev.heap[prev.gameSessions[resp.id]]

\* C34: a host join changes nothing of the room but the host's join flag, a guest
\* join nothing but the guest's name and join flag, and no join changes the host's
\* stored name or any other record.
C34_JoinLocalToSlot ==
  JoinAnswered =>
    /\ JoinedRoom.participant1Name = FoundRoom.participant1Name
    /\ JoinedRoom.conversationHistory = FoundRoom.conversationHistory
    /\ JoinedRoom.bannedParticipants = FoundRoom.bannedParticipants
    /\ resp.role = "host" =>
         /\ JoinedRoom.participant2Name = FoundRoom.participant2Name
         /\ JoinedRoom.guestJoined = FoundRoom.guestJoined
    /\ resp.role = "guest" => JoinedRoom.hostJoined = FoundRoom.hostJoined
    /\ \A o \in 1..Len(heap) : o # gameSessions[resp.id] => heap[o] = prev.heap[o]

\* ------------------------------------------------------------ display names
\* C35: in every state, the two participant names a room record stores are
\* different strings.
C35_NamesDistinct ==
  \A o \in 1..Len(heap) : IsRoom(heap[o]) =>
    heap[o].participant1Name # heap[o].participant2Name

====
